---- MODULE Spec2Model ----
(***************************************************************************)
(* One invocation of scripts/viking.py, the OpenViking command-line        *)
(* wrapper: main() dispatches one subcommand; the handlers obtain a client *)
(* from get_client(), issue service calls on it, print, and close it in a  *)
(* finally block.  The external service (the openviking library) is the    *)
(* environment: each call on it either returns one of the values the       *)
(* handler distinguishes or raises.                                        *)
(*                                                                         *)
(* trace is the history of the invocation: every call made on the library  *)
(* and every line printed, in program order.                               *)
(***************************************************************************)
EXTENDS Integers, Sequences, FiniteSets, TLC

VARIABLES
    command,        \* args.command ("none" when no subcommand was given)
    depInstalled,   \* whether `import openviking` succeeds
    configExists,   \* os.path.exists(config_file)
    matched,        \* the paths globmod.glob() matches (add-dir)
    pc,             \* position of the process in the script
    client,         \* lifecycle of the client object
    exc,            \* an exception is propagating through the try block
    exitCode,       \* process exit status, -1 while running
    dataDirAccess,  \* the data directory has been handed to the library or probed
    trace,          \* calls and printed lines, in order
    files,          \* cmd_add_dir: sorted(glob(...))
    idx,            \* cmd_add_dir / cmd_search: the loop's position
    success_count,  \* cmd_add_dir
    fail_count,     \* cmd_add_dir
    seen,           \* cmd_add_dir: the status part of the results returned so far
    result,         \* the value the handler's (first) service call returned
    resources       \* cmd_search: results.resources

vars == <<command, depInstalled, configExists, matched, pc, client, exc,
          exitCode, dataDirAccess, trace, files, idx, success_count,
          fail_count, seen, result, resources>>

----------------------------------------------------------------------------
(* Bounds of the model *)

MaxFiles == 3      \* paths a glob may match
MaxErrors == 2     \* length of a result's "errors" list
MaxResults == 2    \* resources a search may return
MaxEntries == 2    \* entries a listing may return
MaxExtra == 1      \* how far a resource's content may exceed the preview length

(* Program constant: content[:150] *)
PreviewLen == 150

----------------------------------------------------------------------------
(* Python values *)

None == [tag |-> "None"]
\* the outcome of a call that raises instead of returning a value
Raise == [tag |-> "raise"]
Str(s) == [tag |-> "str", val |-> s]
List(l) == [tag |-> "list", val |-> l]

\* Truthy with `is not None` in place of truthiness
TruthyNotNone(v) == v.tag # "None"

\* Python truthiness of None, a str or a list
Truthy(v) == v.tag # "None" /\ Len(v.val) > 0

EmptyDict == [k \in {} |-> k]

\* dict.get(key, default)
Get(d, key, default) == IF key \in DOMAIN d THEN d[key] ELSE default

Min(a, b) == IF a < b THEN a ELSE b

\* all sequences over S of length at most n
SeqsUpTo(S, n) == UNION {[1..k -> S] : k \in 0..n}

\* sorted(): the elements of a set of paths in ascending order
RECURSIVE Sorted(_)
Sorted(S) ==
    IF S = {} THEN <<>>
    ELSE LET m == CHOOSE x \in S : \A y \in S : x <= y
         IN  <<m>> \o Sorted(S \ {m})

\* s[:n]
Slice(s, n) == SubSeq(s, 1, Min(n, Len(s)))

\* s.replace("\n", " ")
Replace(s) == [i \in 1..Len(s) |-> IF s[i] = "\n" THEN " " ELSE s[i]]

Whitespace == {" ", "\n"}

\* s.strip()
Strip(s) ==
    LET keep == {i \in 1..Len(s) : s[i] \notin Whitespace}
    IN  IF keep = {} THEN <<>>
        ELSE SubSeq(s, CHOOSE i \in keep : \A j \in keep : i <= j,
                       CHOOSE i \in keep : \A j \in keep : i >= j)

\* Preview without the [:150] slice
PreviewNoSlice(content) == Strip(Replace(content))

\* content[:150].replace("\n", " ").strip()
Preview(content) == Strip(Replace(Slice(content, PreviewLen)))

\* name.startswith(".")
IsHidden(name) == Len(name) > 0 /\ name[1] = "."

----------------------------------------------------------------------------
(* Events of the trace *)

Call(n, a) == [ev |-> "call", name |-> n, arg |-> a]      \* a call that returned
Raised(n, a) == [ev |-> "raise", name |-> n, arg |-> a]   \* a call that raised
Stdout(n, a) == [ev |-> "stdout", name |-> n, arg |-> a]  \* print(...)
Stderr(n, a) == [ev |-> "stderr", name |-> n, arg |-> a]  \* print(..., file=sys.stderr)

----------------------------------------------------------------------------
(* What the environment may hand to the script *)

Commands == {"add", "add-dir", "search", "ls", "abstract", "overview", "read", "info"}
ClientCommands == Commands \ {"info"}

ErrorMsgs == {"e1", "e2"}

StatusParts == {EmptyDict, [status |-> "success"], [status |-> "error"]}
ErrorsParts == {EmptyDict} \cup {[errors |-> e] : e \in SeqsUpTo(ErrorMsgs, MaxErrors)}
UriParts == {EmptyDict, [root_uri |-> "viking://resources/f"]}

\* results of add_resource
AddResults == {s @@ e @@ u : s \in StatusParts, e \in ErrorsParts, u \in UriParts}

\* contents of a resource
Patterns == {<<"a", "\n", "a">>, <<" ", "a">>, <<"\n", "a", " ">>}
ContentLens == {0, 2} \cup (PreviewLen..(PreviewLen + MaxExtra))
Contents == {[i \in 1..n |-> p[((i - 1) % Len(p)) + 1]] : n \in ContentLens, p \in Patterns}

\* short texts of the abstract / overview tiers
Texts == {<<>>, <<"a">>, <<"a", "\n", "b">>}

\* search results, in rank order
Resources == {[uri |-> "viking://r1", score |-> 9], [uri |-> "viking://r2", score |-> 5]}

\* listing entries
Names == {<<>>, <<".">>, <<"a">>, <<".", "a">>, <<"a", ".">>}
NameParts == {EmptyDict} \cup {[name |-> n] : n \in Names}
DirParts == {EmptyDict, [isDir |-> TRUE], [isDir |-> FALSE]}
Entries == {n @@ d @@ [size |-> 7, uri |-> "viking://resources/x"] :
                n \in NameParts, d \in DirParts}

----------------------------------------------------------------------------
Init ==
    /\ command \in Commands \cup {"none"}
    /\ depInstalled \in BOOLEAN
    /\ configExists \in BOOLEAN
    /\ matched \in IF command = "add-dir" THEN SUBSET (1..MaxFiles) ELSE {{}}
    /\ pc = "main"
    /\ client = "none"
    /\ exc = FALSE
    /\ exitCode = -1
    /\ dataDirAccess = FALSE
    /\ trace = <<>>
    /\ files = <<>>
    /\ idx = 0
    /\ success_count = 0
    /\ fail_count = 0
    /\ seen = <<>>
    /\ result = None
    /\ resources = None

\* the inputs of the invocation, never changed by the script
Env == <<command, depInstalled, configExists, matched>>
\* the locals of cmd_add_dir
DirLocals == <<files, idx, success_count, fail_count, seen>>

\* the process ends with the given status after printing `lines`
Exit(lines, status) ==
    /\ trace' = trace \o lines
    /\ exitCode' = status
    /\ pc' = "done"

\* an exception raised inside a handler's try block: the finally block runs next
Throw(ev) ==
    /\ trace' = trace \o <<ev>>
    /\ exc' = TRUE
    /\ pc' = "finally"

----------------------------------------------------------------------------
(* main() *)

main ==
    /\ pc = "main"
    /\ IF command = "none"
       THEN Exit(<<Stdout("help", <<>>)>>, 1)
       ELSE /\ pc' = CASE command = "add-dir" -> "cmd_add_dir"
                       [] command = "info" -> "cmd_info"
                       [] OTHER -> "get_client"
            /\ UNCHANGED <<trace, exitCode>>
    /\ UNCHANGED <<Env, client, exc, dataDirAccess, DirLocals, result, resources>>

----------------------------------------------------------------------------
(* get_client() *)

\* get_client without the configuration check
get_client_no_config_check ==
    /\ pc = "get_client"
    /\ IF ~depInstalled
       THEN Exit(<<Stderr("not installed", <<>>)>>, 1)
       ELSE /\ pc' = "SyncOpenViking"
            /\ UNCHANGED <<trace, exitCode>>
    /\ UNCHANGED <<Env, client, exc, dataDirAccess, DirLocals, result, resources>>

\* the import and the configuration check
get_client ==
    /\ pc = "get_client"
    /\ IF ~depInstalled
       THEN Exit(<<Stderr("not installed", <<>>)>>, 1)
       ELSE IF ~configExists
       THEN Exit(<<Stderr("Config not found", <<>>), Stderr("Create config", <<>>)>>, 1)
       ELSE /\ pc' = "SyncOpenViking"
            /\ UNCHANGED <<trace, exitCode>>
    /\ UNCHANGED <<Env, client, exc, dataDirAccess, DirLocals, result, resources>>

\* client = ov.SyncOpenViking(path=data_dir)
SyncOpenViking ==
    /\ pc = "SyncOpenViking"
    /\ dataDirAccess' = TRUE
    /\ \/ /\ client' = "constructed"
          /\ trace' = trace \o <<Call("SyncOpenViking", <<>>)>>
          /\ pc' = "initialize"
          /\ UNCHANGED exitCode
       \/ /\ Exit(<<Raised("SyncOpenViking", <<>>), Stderr("Traceback", <<>>)>>, 1)
          /\ UNCHANGED client
    /\ UNCHANGED <<Env, exc, DirLocals, result, resources>>

\* get_client returning the client without initializing it
initialize_skipped ==
    /\ pc = "initialize"
    /\ pc' = IF command = "add" THEN "cmd_add"
             ELSE IF command = "add-dir" THEN "add_dir_loop"
             ELSE "cmd_" \o command
    /\ UNCHANGED <<Env, client, trace, exitCode, exc, dataDirAccess, DirLocals,
                   result, resources>>

\* client.initialize(); return client
initialize ==
    /\ pc = "initialize"
    /\ \/ /\ client' = "initialized"
          /\ trace' = trace \o <<Call("initialize", <<>>)>>
          /\ pc' = IF command = "add" THEN "cmd_add"
                   ELSE IF command = "add-dir" THEN "add_dir_loop"
                   ELSE "cmd_" \o command
          /\ UNCHANGED exitCode
       \/ /\ Exit(<<Raised("initialize", <<>>), Stderr("Traceback", <<>>)>>, 1)
          /\ UNCHANGED client
    /\ UNCHANGED <<Env, exc, dataDirAccess, DirLocals, result, resources>>

\* finally: client.close(), then the handler returns or the exception propagates
\* (close is the release itself and is taken to return)
finally ==
    /\ pc = "finally"
    /\ client' = "closed"
    /\ Exit(<<Call("close", <<>>)>> \o
            (IF exc THEN <<Stderr("Traceback", <<>>)>> ELSE <<>>),
            IF exc THEN 1 ELSE 0)
    /\ UNCHANGED <<Env, exc, dataDirAccess, DirLocals, result, resources>>

----------------------------------------------------------------------------
(* cmd_add *)

\* AddFailureLines reporting the first error only, as cmd_add_dir does
AddFailureLinesFirstOnly(errors) ==
    <<Stdout("Failed", <<>>)>> \o
    (IF errors # <<>> THEN <<Stdout("Error", errors[1])>> ELSE <<>>)

\* the lines printed for a result whose status is not "success"
AddFailureLines(errors) ==
    <<Stdout("Failed", <<>>)>> \o [i \in 1..Len(errors) |-> Stdout("Error", errors[i])]

cmd_add ==
    /\ pc = "cmd_add"
    /\ \/ /\ Throw(Raised("add_resource", "file"))
          /\ UNCHANGED result
       \/ \E r \in AddResults :
            LET status == Get(r, "status", "unknown")
                errors == Get(r, "errors", <<>>)
                root_uri == Get(r, "root_uri", "")
            IN  /\ result' = r
                /\ UNCHANGED exc
                /\ IF status = "success"
                   THEN /\ trace' = trace \o <<Call("add_resource", "file"),
                                                Stdout("Added", <<>>),
                                                Stdout("URI", root_uri),
                                                Stdout("Processing", <<>>)>>
                        /\ pc' = "add_wait"
                   ELSE /\ trace' = trace \o <<Call("add_resource", "file")>>
                                          \o AddFailureLines(errors)
                        /\ pc' = "finally"
    /\ UNCHANGED <<Env, client, exitCode, dataDirAccess, DirLocals, resources>>

\* client.wait_processed(); print("Processing complete.")
add_wait ==
    /\ pc = "add_wait"
    /\ \/ Throw(Raised("wait_processed", <<>>))
       \/ /\ trace' = trace \o <<Call("wait_processed", <<>>), Stdout("Processing complete", <<>>)>>
          /\ pc' = "finally"
          /\ UNCHANGED exc
    /\ UNCHANGED <<Env, client, exitCode, dataDirAccess, DirLocals, result, resources>>

----------------------------------------------------------------------------
(* cmd_add_dir *)

\* IsSuccess counting everything but an explicit "error" as a success
IsSuccessUnlessError(status) == status # "error"

\* if status == "success"
IsSuccess(status) == status = "success"

\* cmd_add_dir without the early return on an empty match
cmd_add_dir_no_early_return ==
    /\ pc = "cmd_add_dir"
    /\ files' = Sorted(matched)
    /\ pc' = "get_client"
    /\ UNCHANGED <<Env, client, exc, exitCode, trace, dataDirAccess, idx,
                   success_count, fail_count, seen, result, resources>>

\* files = sorted(glob(...)); if not files: print, return
cmd_add_dir ==
    /\ pc = "cmd_add_dir"
    /\ files' = Sorted(matched)
    /\ IF files' = <<>>
       THEN Exit(<<Stdout("No files matching", <<>>)>>, 0)
       ELSE /\ pc' = "get_client"
            /\ UNCHANGED <<trace, exitCode>>
    /\ UNCHANGED <<Env, client, exc, dataDirAccess, idx, success_count,
                   fail_count, seen, result, resources>>

\* add_dir_loop leaving the loop at the first file that fails
add_dir_loop_abort_on_failure ==
    /\ pc = "add_dir_loop"
    /\ idx < Len(files)
    /\ LET f == files[idx + 1]
       IN  \/ /\ Throw(Raised("add_resource", f))
              /\ UNCHANGED <<idx, success_count, fail_count, seen>>
           \/ \E r \in AddResults :
                LET status == Get(r, "status", "unknown")
                    errors == Get(r, "errors", <<>>)
                    err_msg == IF errors # <<>> THEN errors[1] ELSE "unknown error"
                IN  /\ idx' = idx + 1
                    /\ seen' = Append(seen, [k \in DOMAIN r \cap {"status"} |-> r[k]])
                    /\ IF IsSuccess(status)
                       THEN /\ trace' = trace \o <<Call("add_resource", f), Stdout("ok", f)>>
                            /\ success_count' = success_count + 1
                            /\ UNCHANGED <<fail_count, pc>>
                       ELSE /\ trace' = trace \o <<Call("add_resource", f),
                                                    Stdout("failed", <<f, err_msg>>)>>
                            /\ fail_count' = fail_count + 1
                            /\ pc' = "finally"
                            /\ UNCHANGED success_count
                    /\ UNCHANGED exc
    /\ UNCHANGED <<Env, client, exitCode, dataDirAccess, files, result, resources>>

\* one iteration of `for f in files`
add_dir_loop ==
    /\ pc = "add_dir_loop"
    /\ idx < Len(files)
    /\ LET f == files[idx + 1]
       IN  \/ /\ Throw(Raised("add_resource", f))
              /\ UNCHANGED <<idx, success_count, fail_count, seen>>
           \/ \E r \in AddResults :
                LET status == Get(r, "status", "unknown")
                    errors == Get(r, "errors", <<>>)
                    err_msg == IF errors # <<>> THEN errors[1] ELSE "unknown error"
                IN  /\ idx' = idx + 1
                    /\ seen' = Append(seen, [k \in DOMAIN r \cap {"status"} |-> r[k]])
                    /\ IF IsSuccess(status)
                       THEN /\ trace' = trace \o <<Call("add_resource", f), Stdout("ok", f)>>
                            /\ success_count' = success_count + 1
                            /\ UNCHANGED fail_count
                       ELSE /\ trace' = trace \o <<Call("add_resource", f),
                                                    Stdout("failed", <<f, err_msg>>)>>
                            /\ fail_count' = fail_count + 1
                            /\ UNCHANGED success_count
                    /\ UNCHANGED <<pc, exc>>
    /\ UNCHANGED <<Env, client, exitCode, dataDirAccess, files, result, resources>>

\* after the loop: print, client.wait_processed(), print the counts
add_dir_wait ==
    /\ pc = "add_dir_loop"
    /\ idx = Len(files)
    /\ \/ /\ trace' = trace \o <<Stdout("Processing files", success_count),
                                  Raised("wait_processed", <<>>)>>
          /\ exc' = TRUE
       \/ /\ trace' = trace \o <<Stdout("Processing files", success_count),
                                  Call("wait_processed", <<>>),
                                  Stdout("Done", <<success_count, fail_count>>)>>
          /\ UNCHANGED exc
    /\ pc' = "finally"
    /\ UNCHANGED <<Env, client, exitCode, dataDirAccess, DirLocals, result, resources>>

----------------------------------------------------------------------------
(* cmd_search *)

\* results = client.find(query, limit); if not results.resources: print, return
cmd_search ==
    /\ pc = "cmd_search"
    /\ \/ /\ Throw(Raised("find", <<>>))
          /\ UNCHANGED <<resources, idx>>
       \/ \E rs \in {None} \cup {List(l) : l \in SeqsUpTo(Resources, MaxResults)} :
            /\ resources' = rs
            /\ idx' = 0
            /\ UNCHANGED exc
            /\ IF ~Truthy(rs)
               THEN /\ trace' = trace \o <<Call("find", <<>>), Stdout("No results", <<>>)>>
                    /\ pc' = "finally"
               ELSE /\ trace' = trace \o <<Call("find", <<>>), Stdout("Results for", <<>>)>>
                    /\ pc' = "search_loop"
    /\ UNCHANGED <<Env, client, exitCode, dataDirAccess, files, success_count,
                   fail_count, seen, result>>

\* the lines of the inner try of the loop, for each outcome of client.read(r.uri)
PreviewLines(uri, out) ==
    IF out = Raise THEN <<Raised("read", uri)>>
    ELSE IF Truthy(out) THEN <<Call("read", <<uri, out>>), Stdout("Preview", Preview(out.val))>>
    ELSE <<Call("read", <<uri, out>>)>>

\* one iteration of `for i, r in enumerate(results.resources, 1)`
search_loop ==
    /\ pc = "search_loop"
    /\ idx < Len(resources.val)
    /\ LET r == resources.val[idx + 1]
       IN  \E out \in {Raise, None} \cup {Str(c) : c \in Contents} :
             trace' = trace \o <<Stdout("uri", <<idx + 1, r.uri>>), Stdout("Score", r.score)>>
                            \o PreviewLines(r.uri, out)
                            \o <<Stdout("blank", <<>>)>>
    /\ idx' = idx + 1
    /\ pc' = IF idx' = Len(resources.val) THEN "finally" ELSE "search_loop"
    /\ UNCHANGED <<Env, client, exc, exitCode, dataDirAccess, files, success_count,
                   fail_count, seen, result, resources>>

----------------------------------------------------------------------------
(* cmd_ls *)

\* EntryLines hiding dot-files but showing dot-directories
EntryLinesFilesOnly(entry) ==
    LET name == Get(entry, "name", <<"?">>)
        is_dir == Get(entry, "isDir", FALSE)
        size == Get(entry, "size", 0)
        entry_uri == Get(entry, "uri", "")
    IN  IF IsHidden(name) /\ ~is_dir THEN <<>>
        ELSE <<Stdout("entry", [icon |-> IF is_dir THEN "dir" ELSE "file",
                                name |-> name,
                                size_str |-> IF is_dir THEN <<>> ELSE <<size>>]),
               Stdout("entry uri", entry_uri)>>

\* the body of `for entry in entries` for one entry
EntryLines(entry) ==
    LET name == Get(entry, "name", <<"?">>)
        is_dir == Get(entry, "isDir", FALSE)
        size == Get(entry, "size", 0)
        entry_uri == Get(entry, "uri", "")
    IN  IF IsHidden(name) THEN <<>>
        ELSE <<Stdout("entry", [icon |-> IF is_dir THEN "dir" ELSE "file",
                                name |-> name,
                                size_str |-> IF is_dir THEN <<>> ELSE <<size>>]),
               Stdout("entry uri", entry_uri)>>

\* for entry in entries
RECURSIVE LsLines(_)
LsLines(es) == IF es = <<>> THEN <<>> ELSE EntryLines(Head(es)) \o LsLines(Tail(es))

cmd_ls ==
    /\ pc = "cmd_ls"
    /\ \/ /\ Throw(Raised("ls", <<>>))
          /\ UNCHANGED result
       \/ \E es \in {None} \cup {List(l) : l \in SeqsUpTo(Entries, MaxEntries)} :
            /\ result' = es
            /\ trace' = trace \o <<Call("ls", <<>>)>> \o
                        (IF ~Truthy(es) THEN <<Stdout("Empty", <<>>)>>
                         ELSE <<Stdout("listing", <<>>)>> \o LsLines(es.val))
            /\ pc' = "finally"
            /\ UNCHANGED exc
    /\ UNCHANGED <<Env, client, exitCode, dataDirAccess, DirLocals, resources>>

----------------------------------------------------------------------------
(* cmd_abstract, cmd_overview, cmd_read *)

\* result = client.<tier>(uri); if result: print it, else print the message
Fetch(tier, header, missing) ==
    \/ /\ Throw(Raised(tier, <<>>))
       /\ UNCHANGED result
    \/ \E res \in {None} \cup {Str(t) : t \in Texts} :
         /\ result' = res
         /\ trace' = trace \o <<Call(tier, <<>>)>> \o
                     (IF Truthy(res) THEN header \o <<Stdout("content", res.val)>>
                      ELSE <<Stdout(missing, <<>>)>>)
         /\ pc' = "finally"
         /\ UNCHANGED exc

cmd_abstract ==
    /\ pc = "cmd_abstract"
    /\ Fetch("abstract", <<Stdout("Abstract for", <<>>)>>, "No abstract available")
    /\ UNCHANGED <<Env, client, exitCode, dataDirAccess, DirLocals, resources>>

cmd_overview ==
    /\ pc = "cmd_overview"
    /\ Fetch("overview", <<Stdout("Overview for", <<>>)>>, "No overview available")
    /\ UNCHANGED <<Env, client, exitCode, dataDirAccess, DirLocals, resources>>

cmd_read ==
    /\ pc = "cmd_read"
    /\ Fetch("read", <<>>, "No content at")
    /\ UNCHANGED <<Env, client, exitCode, dataDirAccess, DirLocals, resources>>

----------------------------------------------------------------------------
(* cmd_info *)

DenseDicts == {EmptyDict, [model |-> "m"],
               [model |-> "m", dimension |-> 1024, api_base |-> "http://h"]}
EmbeddingParts == {EmptyDict, [embedding |-> EmptyDict]}
                      \cup {[embedding |-> [dense |-> d]] : d \in DenseDicts}
VlmParts == {EmptyDict, [vlm |-> EmptyDict], [vlm |-> [model |-> "v"]]}
\* what json.load(f) may return when it returns an object
Configs == {e @@ v : e \in EmbeddingParts, v \in VlmParts}

\* the lines printed for a parsed configuration
ConfigLines(cfg) ==
    LET emb == Get(Get(cfg, "embedding", EmptyDict), "dense", EmptyDict)
        vlm == Get(cfg, "vlm", EmptyDict)
    IN  <<Stdout("Embedding model", Get(emb, "model", "not set")),
          Stdout("Embedding dim", Get(emb, "dimension", "auto")),
          Stdout("VLM model", Get(vlm, "model", "not set")),
          Stdout("API base", Get(emb, "api_base", "not set"))>>

cmd_info ==
    /\ pc = "cmd_info"
    /\ dataDirAccess' = TRUE
    /\ \E dataExists \in BOOLEAN, parseOk \in BOOLEAN, parsed \in Configs,
          version \in {"known", "unknown"} :
         Exit(<<Stdout("OpenViking Status", <<>>),
                Stdout("Config", <<>>),
                Stdout("Config exists", configExists),
                Stdout("Data dir", <<>>),
                Stdout("Data exists", dataExists)>>
              \o (IF ~configExists THEN <<>>
                  ELSE IF ~parseOk THEN <<Stdout("Config parse error", <<>>)>>
                  ELSE ConfigLines(parsed))
              \o (IF ~depInstalled THEN <<Stdout("openviking not installed", <<>>)>>
                  ELSE IF version = "known" THEN <<Stdout("openviking version", <<>>)>>
                  ELSE <<Stdout("version unknown", <<>>)>>),
              0)
    /\ UNCHANGED <<Env, client, exc, DirLocals, result, resources>>

----------------------------------------------------------------------------
Next ==
    \/ main
    \/ get_client
    \/ SyncOpenViking
    \/ initialize
    \/ finally
    \/ cmd_add
    \/ add_wait
    \/ cmd_add_dir
    \/ add_dir_loop
    \/ add_dir_wait
    \/ cmd_search
    \/ search_loop
    \/ cmd_ls
    \/ cmd_abstract
    \/ cmd_overview
    \/ cmd_read
    \/ cmd_info

Spec == Init /\ [][Next]_vars

----------------------------------------------------------------------------
(* Vocabulary of the properties *)

\* positions of the trace holding an event of kind ev named n
Idx(ev, n) == {i \in DOMAIN trace : trace[i].ev = ev /\ trace[i].name = n}
\* positions where n was called, whether it returned or raised
Attempts(n) == Idx("call", n) \cup Idx("raise", n)
\* the stdout lines named n, in the order printed
Lines(n) == SelectSeq(trace, LAMBDA e : e.ev = "stdout" /\ e.name = n)
StderrIdx == {i \in DOMAIN trace : trace[i].ev = "stderr"}
ServiceCalls == {"add_resource", "wait_processed", "find", "read", "ls",
                 "abstract", "overview"}
ServiceIdx == UNION {Attempts(n) : n \in ServiceCalls}
\* the invocation goes through get_client
ReachesFactory == command \in ClientCommands /\ (command = "add-dir" => matched # {})
\* a value the handlers treat as empty or absent
IsEmptyValue(v) == v.tag = "None" \/ v.val = <<>>
\* the status field of a result is "success"
HasSuccessStatus(d) == "status" \in DOMAIN d /\ d["status"] = "success"
\* a name begins with the hidden-file marker
BeginsWithDot(n) == n # <<>> /\ Head(n) = "."

----------------------------------------------------------------------------
(* C1 *)

\* C1: when the process has ended, every client that was constructed has
\* been closed, whatever the service calls (initialize included) did.
C1_ConstructedClientClosed ==
    (pc = "done" /\ Idx("call", "SyncOpenViking") # {}) => Idx("call", "close") # {}

----------------------------------------------------------------------------
(* C2 *)

\* C2 as stated: every subcommand invoked without a configuration file ends
\* with a diagnostic on stderr and a non-zero status, no client constructed
\* and the data directory untouched.
C2_EverySubcommandAbortsWithoutConfig ==
    (command # "none" /\ ~configExists /\ pc = "done") =>
        /\ exitCode # 0
        /\ StderrIdx # {}
        /\ Attempts("SyncOpenViking") = {}
        /\ ~dataDirAccess

\* C2 amended: without a configuration file no client is ever constructed;
\* an invocation that goes through get_client never touches the data
\* directory and ends with status 1 having printed only diagnostics on
\* stderr; info ends with status 0 after probing the data directory; add-dir
\* matching no file ends with status 0.
C2_FactoryAbortsWithoutConfig ==
    ~configExists =>
        /\ Attempts("SyncOpenViking") = {}
        /\ client = "none"
        /\ ReachesFactory =>
              /\ ~dataDirAccess
              /\ pc = "done" =>
                    /\ exitCode = 1
                    /\ StderrIdx # {}
                    /\ StderrIdx = DOMAIN trace
        /\ (command = "info" /\ pc = "done") =>
              exitCode = 0 /\ dataDirAccess /\ StderrIdx = {}
        /\ (command = "add-dir" /\ matched = {} /\ pc = "done") =>
              exitCode = 0 /\ ~dataDirAccess /\ StderrIdx = {}

C2_Witness ==
    /\ ~configExists /\ depInstalled
    /\ command = "search"
    /\ pc = "done"
    /\ exitCode = 1
    /\ Idx("stderr", "Config not found") # {}

----------------------------------------------------------------------------
(* C3 *)

\* C3: add-dir whose glob matches nothing never enters get_client, prints
\* nothing on stderr, constructs no client, and ends with status 0 having
\* printed the "no files matching" line and nothing else.
C3_EmptyGlobReturnsEarly ==
    (command = "add-dir" /\ matched = {}) =>
        /\ pc \in {"main", "cmd_add_dir", "done"}
        /\ client = "none"
        /\ Attempts("SyncOpenViking") = {}
        /\ StderrIdx = {}
        /\ pc = "done" => /\ exitCode = 0
                          /\ trace = <<Stdout("No files matching", <<>>)>>

C3_Witness ==
    /\ command = "add-dir" /\ matched = {}
    /\ ~depInstalled /\ ~configExists
    /\ pc = "done"
    /\ exitCode = 0
    /\ Idx("stdout", "No files matching") # {}

----------------------------------------------------------------------------
(* C4 *)

\* C4: in add-dir the success counter is the number of results seen whose
\* status is "success", the failure counter the number of the others (a
\* result without a status among them); as many success and failure lines
\* are printed as the counters say; and the final report carries the two
\* counters, which then add up to the number of matched files.
C4_CountersMatchResults ==
    command = "add-dir" =>
        /\ success_count = Cardinality({i \in DOMAIN seen : HasSuccessStatus(seen[i])})
        /\ fail_count = Cardinality({i \in DOMAIN seen : ~HasSuccessStatus(seen[i])})
        /\ Len(Lines("ok")) = success_count
        /\ Len(Lines("failed")) = fail_count
        /\ \A i \in Idx("stdout", "Done") :
              /\ trace[i].arg = <<success_count, fail_count>>
              /\ success_count + fail_count = Cardinality(matched)
              /\ Len(seen) = Cardinality(matched)

\* three matched files, two of them added, one result without a status
C4_Witness ==
    /\ command = "add-dir"
    /\ Cardinality(matched) = 3
    /\ pc = "done"
    /\ \E i \in DOMAIN seen : seen[i] = EmptyDict
    /\ \E i \in Idx("stdout", "Done") : trace[i].arg = <<2, 1>>

----------------------------------------------------------------------------
(* C5 *)

\* the name ls shows for an entry
ShownName(entry) == IF "name" \in DOMAIN entry THEN entry["name"] ELSE <<"?">>
\* the entries of the returned listing that are not hidden, in order
VisibleEntries == SelectSeq(result.val, LAMBDA e : ~BeginsWithDot(ShownName(e)))

\* C5: once ls has printed a non-empty listing, the entries displayed are
\* exactly the returned entries whose name does not begin with ".", in the
\* order returned, directory or not.
C5_HiddenEntriesOmitted ==
    (command = "ls" /\ Idx("stdout", "listing") # {}) =>
        /\ Len(Lines("entry")) = Len(VisibleEntries)
        /\ Len(Lines("entry uri")) = Len(VisibleEntries)
        /\ \A i \in DOMAIN VisibleEntries :
              /\ Lines("entry")[i].arg.name = ShownName(VisibleEntries[i])
              /\ ~BeginsWithDot(Lines("entry")[i].arg.name)

\* a hidden directory is returned ahead of a visible entry
C5_Witness ==
    /\ command = "ls"
    /\ pc = "done"
    /\ Idx("stdout", "listing") # {}
    /\ Len(result.val) = 2
    /\ result.val[1] = [name |-> <<".", "a">>, isDir |-> TRUE, size |-> 7,
                        uri |-> "viking://resources/x"]
    /\ Len(Lines("entry")) = 1

----------------------------------------------------------------------------
(* C6 *)

\* p is what is left of the first PreviewLen characters of c, newlines
\* turned into spaces, once blanks are dropped from both ends
IsPreviewOf(p, c) ==
    LET n == IF Len(c) < PreviewLen THEN Len(c) ELSE PreviewLen
        ch(i) == IF c[i] = "\n" THEN " " ELSE c[i]
    IN  \E o \in 0..(n - Len(p)) :
            /\ \A i \in 1..Len(p) : p[i] = ch(o + i)
            /\ \A i \in (1..o) \cup ((o + Len(p) + 1)..n) : ch(i) = " "

\* C6: in a search that found something, the URI and score lines of the
\* results handled so far are printed in rank order, and all of them once
\* the loop is over; every preview is at most PreviewLen characters, free of
\* newlines, and taken from the head of the content just read; a read that
\* raises is followed by no preview line and leaves no exception pending;
\* the command ends with status 0.
C6_SearchPreview ==
    (command = "search" /\ Idx("stdout", "Results for") # {}) =>
        /\ Len(Lines("uri")) = idx
        /\ Len(Lines("Score")) = idx
        /\ \A i \in 1..idx :
              /\ Lines("uri")[i].arg = <<i, resources.val[i].uri>>
              /\ Lines("Score")[i].arg = resources.val[i].score
        /\ pc \in {"finally", "done"} => idx = Len(resources.val)
        /\ \A k \in Idx("stdout", "Preview") :
              /\ Len(trace[k].arg) <= PreviewLen
              /\ \A i \in DOMAIN trace[k].arg : trace[k].arg[i] # "\n"
              /\ trace[k - 1].ev = "call" /\ trace[k - 1].name = "read"
              /\ IsPreviewOf(trace[k].arg, trace[k - 1].arg[2].val)
        /\ \A k \in Idx("raise", "read") :
              /\ trace[k - 2].name = "uri" /\ trace[k - 1].name = "Score"
              /\ trace[k + 1].name = "blank"
        /\ Len(Lines("Preview")) <= Cardinality(Idx("call", "read"))
        /\ ~exc
        /\ pc = "done" => exitCode = 0

\* the first read raises, the second returns more than PreviewLen
\* characters, of which a preview is shown
C6_Witness ==
    /\ command = "search"
    /\ pc = "done"
    /\ Len(Lines("uri")) = 2
    /\ \E k \in Idx("raise", "read"), j \in Idx("stdout", "Preview") :
          /\ k < j
          /\ Len(trace[j - 1].arg[2].val) > PreviewLen
          /\ Len(trace[j].arg) = PreviewLen

----------------------------------------------------------------------------
(* C7 *)

\* the message each command prints for an empty or absent result
EmptyMessage ==
    [c \in {"ls", "abstract", "overview", "read"} |->
        CASE c = "ls" -> "Empty"
          [] c = "abstract" -> "No abstract available"
          [] c = "overview" -> "No overview available"
          [] c = "read" -> "No content at"]

\* C7: when ls, abstract, overview or read gets an empty or absent result
\* from the service, the command prints its own message and nothing else,
\* prints nothing on stderr, closes the client and ends with status 0;
\* info calls no service, constructs no client and ends with status 0.
C7_EmptyResultIsSoft ==
    /\ \A c \in DOMAIN EmptyMessage :
          (command = c /\ Idx("call", c) # {} /\ IsEmptyValue(result)) =>
              /\ {i \in DOMAIN trace : trace[i].ev = "stdout"} = Idx("stdout", EmptyMessage[c])
              /\ Cardinality(Idx("stdout", EmptyMessage[c])) = 1
              /\ StderrIdx = {}
              /\ ~exc
              /\ pc = "done" => exitCode = 0 /\ client = "closed"
                                /\ Idx("call", "close") # {}
    /\ command = "info" =>
          /\ client = "none" /\ ServiceIdx = {} /\ StderrIdx = {}
          /\ pc = "done" => exitCode = 0

\* abstract returned the empty string
C7_Witness ==
    /\ command = "abstract"
    /\ pc = "done"
    /\ Idx("call", "abstract") # {}
    /\ result = Str(<<>>)
    /\ exitCode = 0
    /\ Idx("stdout", "No abstract available") # {}

----------------------------------------------------------------------------
(* C8 *)

\* the positions of the submissions, and the paths submitted, in order
Submissions == SelectSeq(trace, LAMBDA e : e.ev \in {"call", "raise"}
                                            /\ e.name = "add_resource")
\* the batch went through: a client was obtained and no submission raised
BatchRan == Idx("call", "initialize") # {} /\ Idx("raise", "add_resource") = {}

----------------------------------------------------------------------------
(* C9 *)

\* the errors list of the result of add
ResultErrors == IF "errors" \in DOMAIN result THEN result["errors"] ELSE <<>>

\* C9: in add, a wait is attempted only for a result whose status is
\* "success" and, once the handler body is over, for every such result; the
\* completion line directly follows the return of the wait; for any other
\* result each error is printed in turn, no wait is attempted, nothing is
\* raised and the command ends with status 0.
C9_AddWaitsOnSuccessOnly ==
    command = "add" =>
        /\ Attempts("wait_processed") # {} =>
              Idx("call", "add_resource") # {} /\ HasSuccessStatus(result)
        /\ (Idx("call", "add_resource") # {} /\ HasSuccessStatus(result)
                /\ pc \in {"finally", "done"}) =>
              Cardinality(Attempts("wait_processed")) = 1
        /\ \A k \in Idx("stdout", "Processing complete") :
              trace[k - 1] = Call("wait_processed", <<>>)
        /\ (Idx("call", "add_resource") # {} /\ ~HasSuccessStatus(result)) =>
              /\ Len(Lines("Error")) = Len(ResultErrors)
              /\ \A i \in DOMAIN ResultErrors : Lines("Error")[i].arg = ResultErrors[i]
              /\ Attempts("wait_processed") = {}
              /\ Idx("stdout", "Processing complete") = {}
              /\ ~exc
              /\ pc = "done" => exitCode = 0

\* a result without a status carrying two errors
C9_Witness ==
    /\ command = "add"
    /\ pc = "done"
    /\ Idx("call", "add_resource") # {}
    /\ "status" \notin DOMAIN result
    /\ Len(ResultErrors) = 2
    /\ Len(Lines("Error")) = 2
    /\ exitCode = 0

----------------------------------------------------------------------------
(* C10 *)

\* C10: at most one client is constructed; every service call is issued
\* after initialize returned and before close; close is called at most
\* once and only on a constructed client; with no subcommand or with info
\* no client is constructed.
C10_ClientProtocol ==
    /\ Cardinality(Attempts("SyncOpenViking")) <= 1
    /\ Cardinality(Attempts("initialize")) <= 1
    /\ Cardinality(Attempts("close")) <= 1
    /\ \A k \in ServiceIdx :
          /\ \E j \in Idx("call", "initialize") : j < k
          /\ \A j \in Attempts("close") : k < j
    /\ \A k \in Attempts("close") :
          \E j \in Idx("call", "SyncOpenViking") : j < k
    /\ \A k \in Attempts("initialize") :
          \E j \in Idx("call", "SyncOpenViking") : j < k
    /\ command \in {"none", "info"} =>
          client = "none" /\ Attempts("SyncOpenViking") = {}

\* a search that issued find and two reads on its client, then closed it
C10_Witness ==
    /\ command = "search"
    /\ pc = "done"
    /\ Cardinality(Attempts("read")) = 2
    /\ Idx("call", "close") # {}
    /\ client = "closed"
====
